---- MODULE Spec2Model ----
(***************************************************************************)
(* A model of the chunk-aggregate-synthesize pipeline of                   *)
(* document-compare-intelligence: chunk_text (pdf_processor.py) and        *)
(* call_gemini_api, compare_chunk, compare_texts (llm_comparer.py).        *)
(*                                                                         *)
(* Python strings are TLA+ strings, character for character ("\n" is the   *)
(* newline), so len() is Len, + is \o and a slice is SubSeq.               *)
(***************************************************************************)
EXTENDS Integers, Sequences, FiniteSets, TLC

VARIABLES
    \* ---- chunk_text(text, max_chunk_size), run on its own
    text,               \* the parameter text
    size_limit,         \* the parameter max_chunk_size
    paragraphs,         \* text.split('\n\n')
    k,                  \* number of paragraphs the for loop has consumed
    chunks,             \* the list chunks
    current_chunk,      \* the string current_chunk
    cpc,                \* position in chunk_text: "split", "loop", "done"
    \* ---- compare_texts(text1, text2, model, max_chunk_size)
    text1,              \* the parameter text1 (document A)
    text2,              \* the parameter text2 (document B)
    max_chunk_size,     \* the parameter max_chunk_size
    api_key,            \* whether the environment holds GOOGLE_API_KEY
    pc,                 \* position in compare_texts
    chunks1,            \* chunk_text(text1, ...)
    chunks2,            \* chunk_text(text2, ...)
    i,                  \* the loop variable i of the pair loop and the leftover loops
    all_diff_sections,
    total_additions,
    total_deletions,
    total_modifications,
    all_chunk_summaries_raw,
    chunk_errors,
    final_detailed_summary,
    result,             \* the dictionary compare_texts returns
    exc,                \* the exception compare_texts raises
    \* ---- what the run did, in order
    chunk_calls,        \* number of calls of chunk_text
    chunk_results,      \* the value of each call of compare_chunk
    llm_calls,          \* the requests sent to the service, with what it did
    synth_calls,        \* number of calls of call_gemini_for_text
    \* ---- a second call with the same arguments
    first               \* how the first call ended and what the service answered in it

chunkVars == <<text, size_limit, paragraphs, k, chunks, current_chunk, cpc>>

orchVars ==
    <<text1, text2, max_chunk_size, api_key, pc, chunks1, chunks2, i, all_diff_sections,
      total_additions, total_deletions, total_modifications, all_chunk_summaries_raw,
      chunk_errors, final_detailed_summary, result, exc, chunk_calls, chunk_results,
      llm_calls, synth_calls, first>>

vars == <<chunkVars, orchVars>>

----------------------------------------------------------------------------
(* Bounds of the model *)

MaxTextLen == 8         \* longest text handed to chunk_text on its own
MaxChunkSize == 3       \* largest max_chunk_size handed to chunk_text on its own
MaxParas == 3           \* most paragraphs in a document handed to compare_texts

----------------------------------------------------------------------------
(* Strings *)

NL == "\n"
SEP == "\n\n"

\* The characters the texts are drawn from: two letters and the newline.
Alphabet == {"a", "b", NL}

RECURSIVE StringsUpTo(_)
StringsUpTo(n) ==
    IF n = 0 THEN {""}
    ELSE LET S == StringsUpTo(n - 1)
         IN  S \cup {s \o c : s \in {t \in S : Len(t) = n - 1}, c \in Alphabet}

\* str.split(sep) for the two-character separator: the separators are found
\* left to right and do not overlap; the result is never empty.
RECURSIVE SplitFrom(_, _, _)
SplitFrom(s, pos, cur) ==
    IF pos > Len(s) THEN <<cur>>
    ELSE IF pos < Len(s) /\ SubSeq(s, pos, pos + 1) = SEP
         THEN <<cur>> \o SplitFrom(s, pos + 2, "")
         ELSE SplitFrom(s, pos + 1, cur \o SubSeq(s, pos, pos))

Split(s) == SplitFrom(s, 1, "")

\* sep.join(list of str)
RECURSIVE Join(_, _)
Join(sep, l) ==
    IF l = <<>> THEN ""
    ELSE IF Len(l) = 1 THEN l[1]
    ELSE l[1] \o sep \o Join(sep, Tail(l))

----------------------------------------------------------------------------
(* chunk_text *)

\* A plausible slip: the size test looks at the new paragraph alone.
ExceedsLimitParagraphOnly(cur, paragraph, max) ==
    Len(paragraph) > max /\ cur # ""

\* The test of the if in the loop body.
ExceedsLimit(cur, paragraph, max) ==
    Len(cur) + Len(paragraph) > max /\ cur # ""

\* A plausible slip: paragraphs rejoined with a single newline.
AppendParagraphSingleNewline(cur, paragraph) ==
    IF cur # "" THEN cur \o NL \o paragraph ELSE paragraph

\* The else branch of the loop body: the paragraph joins the current chunk.
AppendParagraph(cur, paragraph) ==
    IF cur # "" THEN cur \o SEP \o paragraph ELSE paragraph

\* One iteration of the for loop, on the pair (chunks, current_chunk).
ChunkStep(st, paragraph, max) ==
    IF ExceedsLimit(st.current_chunk, paragraph, max)
    THEN [chunks |-> Append(st.chunks, st.current_chunk), current_chunk |-> paragraph]
    ELSE [chunks |-> st.chunks,
          current_chunk |-> AppendParagraph(st.current_chunk, paragraph)]

\* A plausible slip: the chunk under construction is not appended at the end.
ChunkLastForgotten(st) == st.chunks

\* The statements after the loop: the last chunk is kept if it has content.
ChunkLast(st) ==
    IF st.current_chunk # "" THEN Append(st.chunks, st.current_chunk) ELSE st.chunks

RECURSIVE ChunkLoop(_, _, _, _)
ChunkLoop(st, ps, pos, max) ==
    IF pos > Len(ps) THEN st ELSE ChunkLoop(ChunkStep(st, ps[pos], max), ps, pos + 1, max)

\* chunk_text as a function, as compare_texts calls it.
chunk_text(t, max) ==
    ChunkLast(ChunkLoop([chunks |-> <<>>, current_chunk |-> ""], Split(t), 1, max))

\* chunk_text statement by statement.
ChunkInit ==
    /\ text \in StringsUpTo(MaxTextLen)
    /\ size_limit \in 1..MaxChunkSize
    /\ paragraphs = <<>>
    /\ k = 0
    /\ chunks = <<>>
    /\ current_chunk = ""
    /\ cpc = "split"

ChunkSplit ==
    /\ cpc = "split"
    /\ paragraphs' = Split(text)
    /\ cpc' = "loop"
    /\ UNCHANGED <<orchVars, text, size_limit, k, chunks, current_chunk>>

ChunkFlush ==
    /\ cpc = "loop"
    /\ k < Len(paragraphs)
    /\ ExceedsLimit(current_chunk, paragraphs[k + 1], size_limit)
    /\ LET st == ChunkStep([chunks |-> chunks, current_chunk |-> current_chunk],
                           paragraphs[k + 1], size_limit)
       IN  chunks' = st.chunks /\ current_chunk' = st.current_chunk
    /\ k' = k + 1
    /\ UNCHANGED <<orchVars, text, size_limit, paragraphs, cpc>>

ChunkExtend ==
    /\ cpc = "loop"
    /\ k < Len(paragraphs)
    /\ ~ExceedsLimit(current_chunk, paragraphs[k + 1], size_limit)
    /\ LET st == ChunkStep([chunks |-> chunks, current_chunk |-> current_chunk],
                           paragraphs[k + 1], size_limit)
       IN  chunks' = st.chunks /\ current_chunk' = st.current_chunk
    /\ k' = k + 1
    /\ UNCHANGED <<orchVars, text, size_limit, paragraphs, cpc>>

ChunkReturn ==
    /\ cpc = "loop"
    /\ k = Len(paragraphs)
    /\ chunks' = ChunkLast([chunks |-> chunks, current_chunk |-> current_chunk])
    /\ cpc' = "done"
    /\ UNCHANGED <<orchVars, text, size_limit, paragraphs, k, current_chunk>>

ChunkNext == ChunkSplit \/ ChunkFlush \/ ChunkExtend \/ ChunkReturn

----------------------------------------------------------------------------
(* JSON values, as json.loads builds them and the code inspects them *)

JNull == [t |-> "null"]
JBool(b) == [t |-> "bool", b |-> b]
JNum(n) == [t |-> "num", n |-> n]
JStr(s) == [t |-> "str", s |-> s]
JList(l) == [t |-> "list", l |-> l]
JObj(o) == [t |-> "obj", o |-> o]        \* o: a function from keys to JSON values

\* A Python str whose content is a response text (a token sequence, below).
JRaw(tokens) == [t |-> "str", raw |-> tokens]

EmptyDict == [key \in {} |-> JNull]

\* dict.get(key, default) on a dict held as a function from keys.
Get(d, key, default) == IF key \in DOMAIN d THEN d[key] ELSE default

\* str(x) as an f-string formats a JSON value (the values the inputs hold).
RECURSIVE Format(_)
Format(v) ==
    CASE v.t = "str" /\ "s" \in DOMAIN v -> v.s
      [] v.t = "str" -> "<raw response>"
      [] v.t = "null" -> "None"
      [] v.t = "bool" -> IF v.b THEN "True" ELSE "False"
      [] v.t = "num" -> ToString(v.n)
      [] v.t = "list" -> IF v.l = <<>> THEN "[]" ELSE "[...]"
      [] v.t = "obj" -> IF DOMAIN v.o = {} THEN "{}" ELSE "{...}"

\* Python truthiness of a JSON value.
Truthy(v) ==
    CASE v.t = "str" /\ "s" \in DOMAIN v -> v.s # ""
      [] v.t = "str" -> v.raw # <<>>
      [] v.t = "null" -> FALSE
      [] v.t = "bool" -> v.b
      [] v.t = "num" -> v.n # 0
      [] v.t = "list" -> v.l # <<>>
      [] v.t = "obj" -> DOMAIN v.o # {}

----------------------------------------------------------------------------
(* Response texts of the JSON-generation call.  A text is a sequence of     *)
(* tokens: whitespace, an opening brace, a closing brace, the members of a  *)
(* JSON object (well-formed text between two braces), or any other text.    *)

WS == [tok |-> "ws"]
JUNK == [tok |-> "junk"]
LBRACE == [tok |-> "{"]
RBRACE == [tok |-> "}"]
Members(o) == [tok |-> "members", obj |-> o]

\* str.strip()
RECURSIVE LStrip(_)
LStrip(s) == IF s # <<>> /\ Head(s) = WS THEN LStrip(Tail(s)) ELSE s
RECURSIVE RStrip(_)
RStrip(s) == IF s # <<>> /\ s[Len(s)] = WS THEN RStrip(SubSeq(s, 1, Len(s) - 1)) ELSE s
Strip(s) == RStrip(LStrip(s))

\* str.find('{') and str.rfind('}'): 0-based, -1 when absent.
RECURSIVE FindFrom(_, _, _)
FindFrom(s, tok, pos) ==
    IF pos > Len(s) THEN -1 ELSE IF s[pos] = tok THEN pos - 1 ELSE FindFrom(s, tok, pos + 1)
Find(s, tok) == FindFrom(s, tok, 1)
RECURSIVE RFindFrom(_, _, _)
RFindFrom(s, tok, pos) ==
    IF pos < 1 THEN -1 ELSE IF s[pos] = tok THEN pos - 1 ELSE RFindFrom(s, tok, pos - 1)
RFind(s, tok) == RFindFrom(s, tok, Len(s))

\* s[start:end] for 0 <= start and 0 <= end
Slice(s, start, end) == SubSeq(s, start + 1, end)

\* json.dumps of a dict, and json.loads: [ok |-> FALSE] is JSONDecodeError.
\* Only an object between braces, with whitespace around it at most, parses.
json_dumps(o) == <<LBRACE, Members(o), RBRACE>>

json_loads(s) ==
    LET b == Strip(s)
    IN  IF Len(b) = 3 /\ b[1] = LBRACE /\ b[2].tok = "members" /\ b[3] = RBRACE
        THEN [ok |-> TRUE, val |-> b[2].obj]
        ELSE IF b = <<LBRACE, RBRACE>>
             THEN [ok |-> TRUE, val |-> EmptyDict]
             ELSE [ok |-> FALSE]

----------------------------------------------------------------------------
(* call_gemini_api and compare_chunk *)

ZeroSummary ==
    JObj([additions |-> JNum(0), deletions |-> JNum(0), modifications |-> JNum(0)])

\* The error dictionaries the two functions build.
ErrorDict(error, detailed) ==
    [error |-> JStr(error), diff_sections |-> JList(<<>>), summary |-> ZeroSummary,
     detailed_summary |-> JStr(detailed)]

ErrorDictRaw(error, raw, detailed) ==
    [error |-> JStr(error), raw_response |-> JRaw(raw), diff_sections |-> JList(<<>>),
     summary |-> ZeroSummary, detailed_summary |-> JStr(detailed)]

\* What the service does with one request (generate_content and the reads of
\* the response): it raises GoogleAPIError or another exception, returns no
\* candidates, or returns candidates with a text.
ApiError(msg) == [kind |-> "api_error", msg |-> msg]
OtherError(msg) == [kind |-> "exception", msg |-> msg]
Blocked(reason) == [kind |-> "blocked", reason |-> reason]
Text(tokens) == [kind |-> "text", text |-> tokens]

Raised(type, msg) == [raised |-> TRUE, type |-> type, msg |-> msg]
Returned(value) == [raised |-> FALSE, value |-> value]

\* The branch for a text that does not start with '{' and end with '}'.
CleanResponse(txt) ==
    LET json_start == Find(txt, LBRACE)
        json_end == RFind(txt, RBRACE) + 1
    IN  IF json_start # -1 /\ json_end # -1
        THEN LET cleaned_json == Slice(txt, json_start, json_end)
             IN  IF json_loads(cleaned_json).ok
                 THEN cleaned_json
                 ELSE json_dumps(ErrorDictRaw(
                          "Invalid JSON structure received and cleanup failed", txt,
                          "Error: Invalid JSON response from API."))
        ELSE json_dumps(ErrorDictRaw(
                 "Could not extract JSON object from Gemini response", txt,
                 "Error: Could not extract JSON object from API response."))

\* call_gemini_api(prompt, model) with GOOGLE_API_KEY set or not, given what
\* the service does with the request.
call_gemini_api(api_key_set, response) ==
    IF ~api_key_set
    THEN Raised("ValueError",
                "Google API key not found. Please set the GOOGLE_API_KEY environment variable.")
    ELSE CASE response.kind = "api_error" ->
                Returned(json_dumps(ErrorDict("Google API Error: " \o response.msg,
                             "Error: Google API Error (" \o response.msg \o ")")))
           [] response.kind = "exception" ->
                Returned(json_dumps(ErrorDict("General Error: " \o response.msg,
                             "Error: " \o response.msg)))
           [] response.kind = "blocked" ->
                Returned(json_dumps(ErrorDict("API call blocked: " \o response.reason,
                             "Error: API call blocked (" \o response.reason \o ")")))
           [] response.kind = "text" ->
                LET txt == response.text
                    stripped == Strip(txt)
                IN  IF txt # <<>> /\ stripped # <<>> /\ Head(stripped) = LBRACE
                                  /\ stripped[Len(stripped)] = RBRACE
                    THEN Returned(txt)
                    ELSE IF txt # <<>>
                         THEN Returned(CleanResponse(txt))
                         ELSE Returned(json_dumps(ErrorDict(
                                  "Received empty response from Gemini API",
                                  "Error: Received empty response from API.")))

RequiredFields == {"diff_sections", "summary", "detailed_summary"}

\* compare_chunk(text1, text2, model): the dictionary it returns.
compare_chunk(api_key_set, response) ==
    LET call == call_gemini_api(api_key_set, response)
    IN  IF call.raised
        THEN ErrorDict("Unexpected error: " \o call.msg,
                       "Unexpected Error during chunk comparison: " \o call.msg)
        ELSE LET response_json_str == call.value
                 parsed == json_loads(response_json_str)
             IN  IF ~parsed.ok
                 THEN ErrorDictRaw(
                          "Invalid response format from Gemini, failed JSON decoding",
                          response_json_str,
                          "Error: Failed JSON decoding of API response.")
                 ELSE LET result_json == parsed.val
                      IN  IF "error" \in DOMAIN result_json
                          THEN result_json
                          ELSE IF RequiredFields \subseteq DOMAIN result_json
                               THEN result_json
                               ELSE ErrorDictRaw(
                                        "Invalid JSON structure received from Gemini",
                                        response_json_str,
                                        "Error: Invalid JSON structure received from API.")

----------------------------------------------------------------------------
(* call_gemini_for_text *)

\* call_gemini_for_text(prompt, model): the text, or "" on any failure.  The
\* reply of the text-generation call holds a Python str.
call_gemini_for_text(api_key_set, reply) ==
    IF ~api_key_set THEN ""
    ELSE CASE reply.kind = "api_error" -> ""
           [] reply.kind = "exception" -> ""
           [] reply.kind = "text" -> IF reply.text # "" THEN reply.text ELSE ""

----------------------------------------------------------------------------
(* The inputs of compare_texts *)

PromptOverhead == 1500          \* prompt_overhead_estimate
MaxSynthesisInputLen == 20000   \* max_synthesis_input_len

\* The paragraphs of a document: "a", "b", "ab", "a", ...
ParagraphAt(n) == <<"a", "b", "ab">>[((n - 1) % 3) + 1]
Document(m) == Join(SEP, [n \in 1..m |-> ParagraphAt(n)])

\* Documents of up to MaxParas paragraphs (the empty text among them) and one
\* of separators only.  LongDocument has three paragraphs, the last one longer.
LongDocument == Join(SEP, <<"a", "b", "ab">>)
OrchTexts == {Document(m) : m \in 0..MaxParas} \cup {SEP}

\* Chunk budgets: non-positive, eaten up by the overhead, and valid ones that
\* leave 1 and 4 characters of content.
Budgets == {-1, 0, PromptOverhead - 1, PromptOverhead, PromptOverhead + 1, PromptOverhead + 4}

Section(type, txt) == JObj([type |-> JStr(type), text |-> JStr(txt)])
ModifiedSection(txt, orig) ==
    JObj([type |-> JStr("modified"), text |-> JStr(txt), original |-> JStr(orig)])
Summary(a, d, m) ==
    JObj([additions |-> JNum(a), deletions |-> JNum(d), modifications |-> JNum(m)])
ChunkJson(ds, sm, narrative) ==
    [diff_sections |-> ds, summary |-> sm, detailed_summary |-> narrative]

GoodSections == JList(<<Section("unchanged", "u1"), ModifiedSection("m1", "o1")>>)

\* s repeated n times
RECURSIVE Repeat(_, _)
Repeat(s, n) ==
    IF n = 0 THEN ""
    ELSE IF n % 2 = 0 THEN LET half == Repeat(s, n \div 2) IN half \o half
         ELSE s \o Repeat(s, n - 1)

\* A narrative as long as the synthesis input may be without truncation.
LongNarrative == Repeat("x", MaxSynthesisInputLen)

PartialSections == JList(<<Section("added", "a2"), Section("modified", "m2")>>)

\* What the service may do with a chunk comparison request.
Responses ==
    { \* the object asked for
      Text(json_dumps(ChunkJson(GoodSections, Summary(1, 0, 1), JStr("first narrative")))),
      \* the object inside other text, with an empty narrative and a modified
      \* section that holds no "original"
      Text(<<JUNK>> \o json_dumps(ChunkJson(PartialSections,
                                            Summary(2, 1, 0), JStr(""))) \o <<JUNK, WS>>),
      \* the object asked for, with a narrative of max_synthesis_input_len characters
      Text(json_dumps(ChunkJson(JList(<<Section("deleted", "d3")>>), Summary(0, 1, 0),
                                JStr(LongNarrative)))),
      \* text that is no JSON: between braces, without braces, and empty
      Text(<<LBRACE, JUNK, RBRACE>>),
      Text(<<JUNK>>),
      Text(<<>>),
      \* the request is blocked, or fails
      Blocked("SAFETY"),
      OtherError("timed out"),
      \* an object that holds "error" beside the three fields
      Text(json_dumps([error |-> JStr("model refused"), diff_sections |-> GoodSections,
                       summary |-> Summary(3, 3, 3), detailed_summary |-> JStr("n")])),
      \* an object without "summary"
      Text(json_dumps([diff_sections |-> GoodSections, detailed_summary |-> JStr("n")])),
      \* the three fields, holding other JSON types
      Text(json_dumps(ChunkJson(JNum(5), Summary(0, 0, 0), JStr("n")))),
      Text(json_dumps(ChunkJson(GoodSections, JList(<<>>), JStr("n")))),
      Text(json_dumps(ChunkJson(GoodSections,
               JObj([additions |-> JStr("2"), deletions |-> JNum(0)]), JStr("n")))),
      Text(json_dumps(ChunkJson(GoodSections, Summary(0, 0, 0), JNum(7)))) }

\* What the service may do with the synthesis request.
Replies == {Text("overall narrative"), Text(""), ApiError("quota exceeded")}

----------------------------------------------------------------------------
(* compare_texts *)

num_chunks1 == Len(chunks1)
num_chunks2 == Len(chunks2)
Min(a, b) == IF a <= b THEN a ELSE b
Max(a, b) == IF a >= b THEN a ELSE b
num_pairs_to_compare == Min(num_chunks1, num_chunks2)
total_chunks_to_process == Max(num_chunks1, num_chunks2)
effective_chunk_content_size == max_chunk_size - PromptOverhead

Unset == [unset |-> TRUE]

\* A plausible slip: the synthesis starts right after the pairs.
AfterChunkSkipsLeftovers(j) ==
    IF j < num_pairs_to_compare THEN "pairs" ELSE "synth"

\* Where the run goes once i chunks are dealt with.
AfterChunk(j) ==
    IF j < num_pairs_to_compare THEN "pairs"
    ELSE IF j < total_chunks_to_process THEN "leftover"
    ELSE "synth"

IsFailure(chunk_result) == "error" \in DOMAIN chunk_result

\* list.extend(x): x must be iterable; a str gives its characters, a dict its
\* keys (the inputs hold dicts of one key at most there).
Iterable(v) == v.t \in {"list", "str", "obj"}
Items(v) ==
    CASE v.t = "list" -> v.l
      [] v.t = "str" -> [n \in 1..Len(v.s) |-> JStr(SubSeq(v.s, n, n))]
      [] v.t = "obj" -> IF DOMAIN v.o = {} THEN <<>>
                        ELSE <<JStr(CHOOSE key \in DOMAIN v.o : TRUE)>>

\* A plausible slip: the new sections are put in front.
ExtendInFront(list, items) == items \o list

Extend(list, items) == list \o items

\* total += x for an int total: x must be a number (a bool counts 1 or 0).
Addable(v) == v.t \in {"num", "bool"}
Number(v) == IF v.t = "num" THEN v.n ELSE IF v.b THEN 1 ELSE 0

CountKeys == {"additions", "deletions", "modifications"}
Count(chunk_result, key) == Get(chunk_result["summary"].o, key, JNum(0))

\* The success branch raises where a value has a type the statement cannot
\* take: extend at line 234, summary.get at 236, += at 236 to 238.
SuccessRaises(chunk_result) ==
    IF ~Iterable(chunk_result["diff_sections"]) THEN TRUE
    ELSE IF chunk_result["summary"].t # "obj" THEN TRUE
    ELSE \E key \in CountKeys : ~Addable(Count(chunk_result, key))

SuccessException(chunk_result) ==
    IF ~Iterable(chunk_result["diff_sections"]) THEN "TypeError"
    ELSE IF chunk_result["summary"].t # "obj" THEN "AttributeError"
    ELSE "TypeError"

\* A plausible slip: the marker numbers the chunks from 0.
ErrorSectionFromZero(j, error_message) ==
    Section("unchanged",
            "\n\n[ERROR PROCESSING CHUNK " \o ToString(j) \o ": " \o error_message \o "]\n\n")

\* The synthetic section, error line and narrative of a failed pair i = j.
ErrorSection(j, error_message) ==
    Section("unchanged",
            "\n\n[ERROR PROCESSING CHUNK " \o ToString(j + 1) \o ": " \o error_message \o "]\n\n")
ErrorLineFromZero(j, error_message) == "Chunk " \o ToString(j) \o ": " \o error_message
ErrorLine(j, error_message) == "Chunk " \o ToString(j + 1) \o ": " \o error_message
ErrorNarrative(j, error_message) ==
    "[Error processing chunk " \o ToString(j + 1) \o ": " \o error_message \o "]"

\* A plausible slip: a leftover chunk of document B is tagged deleted.
AddedSectionTaggedDeleted(chunk) == Section("deleted", chunk)

AddedSection(chunk) == Section("added", chunk)
\* A plausible slip: the deleted branch copied from the added one, tag included.
DeletedSectionTaggedAdded(chunk) == Section("added", chunk)

DeletedSection(chunk) == Section("deleted", chunk)
AddedNarrative(j) == "Chunk " \o ToString(j + 1) \o ": This entire chunk was added."
DeletedNarrative(j) == "Chunk " \o ToString(j + 1) \o ": This entire chunk was deleted."

\* A plausible slip: a leftover chunk counts by its length.
LeftoverUnitByLength(chunk) == Len(chunk)

\* What one leftover chunk adds to total_additions or total_deletions.
LeftoverUnit(chunk) == 1

\* The request log: a request is sent only with an API key.
LogCompare(response) ==
    IF api_key
    THEN Append(llm_calls, [kind |-> "compare", pair |-> i, chunk1 |-> chunks1[i + 1],
                            chunk2 |-> chunks2[i + 1], response |-> response])
    ELSE llm_calls

\* The environment and the frame at the start of a call.
OrchStart ==
    /\ api_key \in BOOLEAN
    /\ pc = "check"
    /\ chunks1 = <<>>
    /\ chunks2 = <<>>
    /\ i = 0
    /\ all_diff_sections = <<>>
    /\ total_additions = 0
    /\ total_deletions = 0
    /\ total_modifications = 0
    /\ all_chunk_summaries_raw = <<>>
    /\ chunk_errors = <<>>
    /\ final_detailed_summary = ""
    /\ result = Unset
    /\ exc = "none"
    /\ chunk_calls = 0
    /\ chunk_results = <<>>
    /\ llm_calls = <<>>
    /\ synth_calls = 0
    /\ first = Unset

OrchInit ==
    /\ text1 \in OrchTexts
    /\ text2 \in OrchTexts
    /\ max_chunk_size \in Budgets
    /\ OrchStart

accumulators ==
    <<all_diff_sections, total_additions, total_deletions, total_modifications,
      all_chunk_summaries_raw, chunk_errors>>
inputs == <<text1, text2, max_chunk_size, api_key>>

\* Lines 193-196: the effective budget is not positive.
RejectBudget ==
    /\ pc = "check"
    /\ effective_chunk_content_size <= 0
    /\ pc' = "raised"
    /\ exc' = "ValueError"
    /\ UNCHANGED <<chunkVars, first, synth_calls, inputs, chunks1, chunks2, i, accumulators, final_detailed_summary,
                   result, chunk_calls, chunk_results, llm_calls>>

AcceptBudget ==
    /\ pc = "check"
    /\ effective_chunk_content_size > 0
    /\ pc' = "chunk"
    /\ UNCHANGED <<chunkVars, first, synth_calls, inputs, chunks1, chunks2, i, accumulators, final_detailed_summary,
                   result, exc, chunk_calls, chunk_results, llm_calls>>

\* A plausible slip: the result for two empty documents holds no section.
EmptyResultWithoutSection ==
    [diff_sections |-> <<>>,
     summary |-> [additions |-> 0, deletions |-> 0, modifications |-> 0],
     detailed_summary |-> "Both documents appear to be empty."]

\* Lines 209-213: the dictionary returned for two documents without chunks.
EmptyResult ==
    [diff_sections |-> <<Section("unchanged", "")>>,
     summary |-> [additions |-> 0, deletions |-> 0, modifications |-> 0],
     detailed_summary |-> "Both documents appear to be empty."]

\* Lines 200-213: both documents chunk to nothing.
ChunkBothEmpty ==
    /\ pc = "chunk"
    /\ chunk_text(text1, effective_chunk_content_size) = <<>>
    /\ chunk_text(text2, effective_chunk_content_size) = <<>>
    /\ chunks1' = <<>>
    /\ chunks2' = <<>>
    /\ chunk_calls' = chunk_calls + 2
    /\ result' = EmptyResult
    /\ pc' = "returned"
    /\ UNCHANGED <<chunkVars, first, synth_calls, inputs, i, accumulators, final_detailed_summary, exc, chunk_results,
                   llm_calls>>

\* A plausible slip: the list of sections outlives the call (a module-level
\* list or a mutable default argument).
SectionsOfLastCall == all_diff_sections

\* Line 215: all_diff_sections starts as a new empty list in every call.
NewSections == <<>>

\* Lines 200-225: the documents are chunked and the accumulators set up.
ChunkBoth ==
    /\ pc = "chunk"
    /\ LET c1 == chunk_text(text1, effective_chunk_content_size)
           c2 == chunk_text(text2, effective_chunk_content_size)
       IN  /\ ~(c1 = <<>> /\ c2 = <<>>)
           /\ chunks1' = c1
           /\ chunks2' = c2
           /\ pc' = IF Min(Len(c1), Len(c2)) > 0 THEN "pairs"
                    ELSE IF Max(Len(c1), Len(c2)) > 0 THEN "leftover" ELSE "synth"
    /\ chunk_calls' = chunk_calls + 2
    /\ i' = 0
    /\ all_diff_sections' = NewSections
    /\ total_additions' = 0
    /\ total_deletions' = 0
    /\ total_modifications' = 0
    /\ all_chunk_summaries_raw' = <<>>
    /\ chunk_errors' = <<>>
    /\ UNCHANGED <<chunkVars, first, synth_calls, inputs, final_detailed_summary, result, exc, chunk_results, llm_calls>>

\* Lines 228-242: pair i compared, the result without "error".
ComparePairSuccess ==
    /\ pc = "pairs"
    /\ \E response \in Responses :
         LET chunk_result == compare_chunk(api_key, response)
             summary == chunk_result["summary"]
             detailed_summary == chunk_result["detailed_summary"]
         IN  /\ ~IsFailure(chunk_result)
             /\ ~SuccessRaises(chunk_result)
             /\ all_diff_sections' =
                    Extend(all_diff_sections, Items(chunk_result["diff_sections"]))
             /\ total_additions' = total_additions + Number(Count(chunk_result, "additions"))
             /\ total_deletions' = total_deletions + Number(Count(chunk_result, "deletions"))
             /\ total_modifications' =
                    total_modifications + Number(Count(chunk_result, "modifications"))
             /\ all_chunk_summaries_raw' =
                    IF Truthy(detailed_summary)
                    THEN Append(all_chunk_summaries_raw, detailed_summary)
                    ELSE all_chunk_summaries_raw
             /\ chunk_results' = Append(chunk_results, chunk_result)
             /\ llm_calls' = LogCompare(response)
    /\ i' = i + 1
    /\ pc' = AfterChunk(i + 1)
    /\ UNCHANGED <<chunkVars, first, synth_calls, inputs, chunks1, chunks2, chunk_errors, final_detailed_summary, result,
                   exc, chunk_calls>>

\* Lines 228-238: pair i compared, the result without "error", and a value of
\* it has a type the aggregation cannot take: the exception leaves compare_texts.
ComparePairRaises ==
    /\ pc = "pairs"
    /\ \E response \in Responses :
         LET chunk_result == compare_chunk(api_key, response)
         IN  /\ ~IsFailure(chunk_result)
             /\ SuccessRaises(chunk_result)
             /\ exc' = SuccessException(chunk_result)
             /\ chunk_results' = Append(chunk_results, chunk_result)
             /\ llm_calls' = LogCompare(response)
    /\ pc' = "raised"
    /\ UNCHANGED <<chunkVars, first, synth_calls, inputs, chunks1, chunks2, i, accumulators, final_detailed_summary,
                   result, chunk_calls>>

\* Lines 228-231, 243-251: pair i compared, the result holds "error".
ComparePairFailure ==
    /\ pc = "pairs"
    /\ \E response \in Responses :
         LET chunk_result == compare_chunk(api_key, response)
             error_message == Format(chunk_result["error"])
         IN  /\ IsFailure(chunk_result)
             /\ chunk_errors' = Append(chunk_errors, ErrorLine(i, error_message))
             /\ all_diff_sections' =
                    Append(all_diff_sections, ErrorSection(i, error_message))
             /\ all_chunk_summaries_raw' =
                    Append(all_chunk_summaries_raw, JStr(ErrorNarrative(i, error_message)))
             /\ chunk_results' = Append(chunk_results, chunk_result)
             /\ llm_calls' = LogCompare(response)
    /\ i' = i + 1
    /\ pc' = AfterChunk(i + 1)
    /\ UNCHANGED <<chunkVars, first, synth_calls, inputs, chunks1, chunks2, total_additions, total_deletions,
                   total_modifications, final_detailed_summary, result, exc, chunk_calls>>

\* Lines 254-261: a chunk of document B beyond the pairs.
LeftoverAdded ==
    /\ pc = "leftover"
    /\ num_chunks2 > num_chunks1
    /\ i < num_chunks2
    /\ LET added_chunk_text == chunks2[i + 1]
       IN  /\ all_diff_sections' = Append(all_diff_sections, AddedSection(added_chunk_text))
           /\ total_additions' = total_additions + LeftoverUnit(added_chunk_text)
    /\ all_chunk_summaries_raw' = Append(all_chunk_summaries_raw, JStr(AddedNarrative(i)))
    /\ i' = i + 1
    /\ pc' = AfterChunk(i + 1)
    /\ UNCHANGED <<chunkVars, first, synth_calls, inputs, chunks1, chunks2, total_deletions, total_modifications,
                   chunk_errors, final_detailed_summary, result, exc, chunk_calls,
                   chunk_results, llm_calls>>

\* Lines 263-270: a chunk of document A beyond the pairs.
LeftoverDeleted ==
    /\ pc = "leftover"
    /\ num_chunks1 > num_chunks2
    /\ i < num_chunks1
    /\ LET deleted_chunk_text == chunks1[i + 1]
       IN  /\ all_diff_sections' =
                  Append(all_diff_sections, DeletedSection(deleted_chunk_text))
           /\ total_deletions' = total_deletions + LeftoverUnit(deleted_chunk_text)
    /\ all_chunk_summaries_raw' = Append(all_chunk_summaries_raw, JStr(DeletedNarrative(i)))
    /\ i' = i + 1
    /\ pc' = AfterChunk(i + 1)
    /\ UNCHANGED <<chunkVars, first, synth_calls, inputs, chunks1, chunks2, total_additions, total_modifications,
                   chunk_errors, final_detailed_summary, result, exc, chunk_calls,
                   chunk_results, llm_calls>>

\* str.join raises TypeError on an item that is no str.
Joinable(l) == \A n \in 1..Len(l) : l[n].t = "str"
Strs(l) == [n \in 1..Len(l) |-> l[n].s]

TruncationMarker == "\n... [Summaries truncated due to length]"

\* A plausible slip: the text is cut and no marker is put after it.
TruncateWithoutMarker(s) ==
    IF Len(s) > MaxSynthesisInputLen THEN SubSeq(s, 1, MaxSynthesisInputLen) ELSE s

\* Lines 274-281: the text handed to the synthesis.
Truncate(s) ==
    IF Len(s) > MaxSynthesisInputLen
    THEN SubSeq(s, 1, MaxSynthesisInputLen) \o TruncationMarker
    ELSE s
concatenated_chunk_summaries == Truncate(Join("\n---\n", Strs(all_chunk_summaries_raw)))

\* The parts of the synthesis prompt that vary.
synthesis_prompt ==
    [additions |-> total_additions, deletions |-> total_deletions,
     modifications |-> total_modifications, summaries |-> concatenated_chunk_summaries]

LogSynthesis(reply) ==
    IF api_key
    THEN Append(llm_calls, [kind |-> "synthesis", prompt |-> synthesis_prompt,
                            reply |-> reply])
    ELSE llm_calls

\* Line 274: a narrative that is no str makes join raise.
SynthJoinRaises ==
    /\ pc = "synth"
    /\ ~Joinable(all_chunk_summaries_raw)
    /\ pc' = "raised"
    /\ exc' = "TypeError"
    /\ UNCHANGED <<chunkVars, first, synth_calls, inputs, chunks1, chunks2, i, accumulators, final_detailed_summary,
                   result, chunk_calls, chunk_results, llm_calls>>

\* Lines 284-310: the synthesis call returns a text.
SynthSucceeds ==
    /\ pc = "synth"
    /\ Joinable(all_chunk_summaries_raw)
    /\ all_chunk_summaries_raw # <<>>
    /\ \E reply \in Replies :
         LET synthesized_summary == call_gemini_for_text(api_key, reply)
         IN  /\ synthesized_summary # ""
             /\ final_detailed_summary' = synthesized_summary
             /\ llm_calls' = LogSynthesis(reply)
    /\ synth_calls' = synth_calls + 1
    /\ pc' = "finish"
    /\ UNCHANGED <<chunkVars, first, inputs, chunks1, chunks2, i, accumulators, result, exc, chunk_calls,
                   chunk_results>>

\* Lines 284-313: the synthesis call returns "".
SynthFallsBack ==
    /\ pc = "synth"
    /\ Joinable(all_chunk_summaries_raw)
    /\ all_chunk_summaries_raw # <<>>
    /\ \E reply \in Replies :
         LET synthesized_summary == call_gemini_for_text(api_key, reply)
         IN  /\ synthesized_summary = ""
             /\ final_detailed_summary' =
                    "Synthesis Failed. Raw Chunk Summaries:\n---\n"
                        \o concatenated_chunk_summaries
             /\ llm_calls' = LogSynthesis(reply)
    /\ synth_calls' = synth_calls + 1
    /\ pc' = "finish"
    /\ UNCHANGED <<chunkVars, first, inputs, chunks1, chunks2, i, accumulators, result, exc, chunk_calls,
                   chunk_results>>

\* Lines 318-320: nothing to summarize.
SynthSkipped ==
    /\ pc = "synth"
    /\ all_chunk_summaries_raw = <<>>
    /\ final_detailed_summary' =
           "No specific changes were identified or summarized during chunk processing."
    /\ pc' = "finish"
    /\ UNCHANGED <<chunkVars, first, synth_calls, inputs, chunks1, chunks2, i, accumulators, result, exc, chunk_calls,
                   chunk_results, llm_calls>>

\* Line 324
error_prefix ==
    "**Note:** Errors occurred during the processing of " \o ToString(Len(chunk_errors))
        \o " chunk(s). The comparison or summary below might be incomplete or inaccurate in affected areas.\nError Details:\n- "
        \o Join("\n- ", chunk_errors) \o "\n\n---\n\n"

\* Lines 322-341: the error prefix and the dictionary returned.
\* A plausible slip: the floor at zero forgotten.
ChunksDeletedWithoutFloor == num_chunks1 - num_chunks2

\* Lines 337-338: the leftover counts of the result.
chunks_added == Max(0, num_chunks2 - num_chunks1)
chunks_deleted == Max(0, num_chunks1 - num_chunks2)

Finish ==
    /\ pc = "finish"
    /\ LET final == IF chunk_errors # <<>>
                    THEN error_prefix \o final_detailed_summary
                    ELSE final_detailed_summary
       IN  /\ final_detailed_summary' = final
           /\ result' =
                  [diff_sections |-> all_diff_sections,
                   summary |-> [additions |-> total_additions,
                                deletions |-> total_deletions,
                                modifications |-> total_modifications,
                                chunks_processed |-> num_pairs_to_compare,
                                chunks_added |-> chunks_added,
                                chunks_deleted |-> chunks_deleted,
                                chunk_errors |-> Len(chunk_errors)],
                   detailed_summary |-> final]
    /\ pc' = "returned"
    /\ UNCHANGED <<chunkVars, first, synth_calls, inputs, chunks1, chunks2, i, accumulators, exc, chunk_calls,
                   chunk_results, llm_calls>>

OrchNext ==
    \/ RejectBudget
    \/ AcceptBudget
    \/ ChunkBothEmpty
    \/ ChunkBoth
    \/ ComparePairSuccess
    \/ ComparePairRaises
    \/ ComparePairFailure
    \/ LeftoverAdded
    \/ LeftoverDeleted
    \/ SynthJoinRaises
    \/ SynthSucceeds
    \/ SynthFallsBack
    \/ SynthSkipped
    \/ Finish

----------------------------------------------------------------------------
(* The specifications *)

\* chunk_text not running.
ChunkIdle ==
    /\ text = ""
    /\ size_limit = 1
    /\ paragraphs = <<>>
    /\ k = 0
    /\ chunks = <<>>
    /\ current_chunk = ""
    /\ cpc = "idle"

\* compare_texts not running.
OrchIdle ==
    /\ text1 = ""
    /\ text2 = ""
    /\ max_chunk_size = 0
    /\ api_key = FALSE
    /\ pc = "idle"
    /\ chunks1 = <<>>
    /\ chunks2 = <<>>
    /\ i = 0
    /\ all_diff_sections = <<>>
    /\ total_additions = 0
    /\ total_deletions = 0
    /\ total_modifications = 0
    /\ all_chunk_summaries_raw = <<>>
    /\ chunk_errors = <<>>
    /\ final_detailed_summary = ""
    /\ result = Unset
    /\ exc = "none"
    /\ chunk_calls = 0
    /\ chunk_results = <<>>
    /\ llm_calls = <<>>
    /\ synth_calls = 0
    /\ first = Unset

\* One call of compare_texts.
Init == OrchInit /\ ChunkIdle
Next == OrchNext
Spec == Init /\ [][Next]_vars

\* One call of chunk_text.
ChunkerInit == ChunkInit /\ OrchIdle
ChunkerNext == ChunkNext
SpecChunker == ChunkerInit /\ [][ChunkerNext]_vars

----------------------------------------------------------------------------
(* Claims about chunk_text, checked under SpecChunker *)

ChunkerDone == cpc = "done"

StartsWithSep(s) == Len(s) >= 2 /\ SubSeq(s, 1, 2) = SEP
EndsWithSep(s) == Len(s) >= 2 /\ SubSeq(s, Len(s) - 1, Len(s)) = SEP
NoEmptyParagraph(s) == \A n \in 1..Len(Split(s)) : Split(s)[n] # ""

\* C1: every chunk returned by chunk_text has length <= max_chunk_size, except
\* a chunk that consists of exactly one paragraph whose own length exceeds
\* max_chunk_size.
C1_ChunksWithinLimit ==
    ChunkerDone =>
        \A n \in 1..Len(chunks) :
            \/ Len(chunks[n]) <= size_limit
            \/ Len(Split(chunks[n])) = 1 /\ Len(chunks[n]) > size_limit

\* C2 as stated: for all texts, joining the chunks of chunk_text with "\n\n"
\* reconstructs the text exactly, in particular when the text fits in one
\* chunk, texts that begin with, end with or consist only of separators
\* included.
C2_RoundTripAllTexts ==
    ChunkerDone =>
        /\ Len(text) <= size_limit => Join(SEP, chunks) = text
        /\ Join(SEP, chunks) = text

\* C2 as amended: joining the chunks with "\n\n" reconstructs the text
\* exactly for every text that has no empty paragraph, and for every text
\* with len(text) <= max_chunk_size that does not begin with "\n\n" (texts
\* that end with separators included).
C2_RoundTripAmended ==
    ChunkerDone /\ (\/ NoEmptyParagraph(text)
                    \/ Len(text) <= size_limit /\ ~StartsWithSep(text))
        => Join(SEP, chunks) = text

\* A text that ends with a separator, fits in one chunk and came back whole.
C2_Witness ==
    /\ ChunkerDone
    /\ Len(text) <= size_limit
    /\ EndsWithSep(text)
    /\ ~StartsWithSep(text)
    /\ Len(chunks) = 1
    /\ Join(SEP, chunks) = text

\* C3: a paragraph longer than max_chunk_size is never split and shares its
\* chunk with no other paragraph: the oversized paragraphs of the text are,
\* in order, exactly the chunks that are one oversized paragraph, and no chunk
\* of several paragraphs holds an oversized one.
C3_OversizedParagraphStandsAlone ==
    ChunkerDone =>
        LET Oversized(p) == Len(p) > size_limit
            Alone(c) == Len(Split(c)) = 1 /\ Len(c) > size_limit
        IN  /\ SelectSeq(chunks, Alone) = SelectSeq(paragraphs, Oversized)
            /\ \A n \in 1..Len(chunks) :
                   \A j \in 1..Len(Split(chunks[n])) :
                       Oversized(Split(chunks[n])[j]) => chunks[n] = Split(chunks[n])[j]

\* An oversized paragraph between two non-empty paragraphs, returned alone.
C3_Witness ==
    /\ ChunkerDone
    /\ \E n \in 2..(Len(paragraphs) - 1) :
           /\ Len(paragraphs[n]) > size_limit
           /\ paragraphs[n - 1] # ""
           /\ paragraphs[n + 1] # ""
           /\ \E j \in 1..Len(chunks) : chunks[j] = paragraphs[n]

----------------------------------------------------------------------------
(* Claims about compare_texts, checked under Spec *)

OrchReturned == pc = "returned"
ShortCircuited == OrchReturned /\ chunks1 = <<>> /\ chunks2 = <<>>
ValidBudget == effective_chunk_content_size > 0

IsPrefix(p, l) == Len(p) <= Len(l) /\ SubSeq(l, 1, Len(p)) = p
HasPrefix(s, p) == Len(p) <= Len(s) /\ SubSeq(s, 1, Len(p)) = p

\* The object between the first '{' and the last '}' of a response text.
Embedded(txt) ==
    IF Find(txt, LBRACE) = -1 THEN <<>>
    ELSE Slice(txt, Find(txt, LBRACE), RFind(txt, RBRACE) + 1)

\* A response text that is no JSON object, directly or embedded.
Malformed(response) ==
    /\ response.kind = "text"
    /\ response.text # <<>>
    /\ ~json_loads(response.text).ok
    /\ ~json_loads(Embedded(response.text)).ok

AllPairsSucceeded == \A n \in 1..Len(chunk_results) : ~IsFailure(chunk_results[n])

\* The sum of one count over the results of compare_chunk, a failure adding 0.
RECURSIVE SumCount(_, _)
SumCount(rs, key) ==
    IF rs = <<>> THEN 0
    ELSE (IF IsFailure(Head(rs)) THEN 0 ELSE Number(Count(Head(rs), key)))
         + SumCount(Tail(rs), key)

LeftoverAddedCount == Max(0, num_chunks2 - num_chunks1)
LeftoverDeletedCount == Max(0, num_chunks1 - num_chunks2)

\* What pair j (from 0) contributes to the diff sections.
PairSections(chunk_result, j) ==
    IF IsFailure(chunk_result)
    THEN <<ErrorSection(j, Format(chunk_result["error"]))>>
    ELSE Items(chunk_result["diff_sections"])

RECURSIVE ConcatPairSections(_, _)
ConcatPairSections(rs, j) ==
    IF j >= Len(rs) THEN <<>>
    ELSE PairSections(rs[j + 1], j) \o ConcatPairSections(rs, j + 1)

LeftoverSections ==
    IF num_chunks2 > num_chunks1
    THEN [n \in 1..(num_chunks2 - num_chunks1) |->
              Section("added", chunks2[num_chunks1 + n])]
    ELSE [n \in 1..(num_chunks1 - num_chunks2) |->
              Section("deleted", chunks1[num_chunks2 + n])]

ExpectedSections == ConcatPairSections(chunk_results, 0) \o LeftoverSections

\* C4: for every max_chunk_size whose effective budget (max_chunk_size - 1500)
\* is not positive, compare_texts raises a configuration error before any
\* chunking and before any LLM call; and it raises in no other situation.
C4_RaisesOnlyOnBudget ==
    /\ (~ValidBudget /\ pc # "check") =>
           (pc = "raised" /\ exc = "ValueError" /\ chunk_calls = 0 /\ llm_calls = <<>>)
    /\ pc = "raised" => ~ValidBudget

\* C5: with GOOGLE_API_KEY absent, compare_texts on documents with content
\* raises instead of returning a result.
C5_MissingKeyIsFatal ==
    (~api_key /\ OrchReturned) => (text1 = "" \/ text2 = "" \/ ShortCircuited)

\* C6: with a valid budget, whatever the service does with each pair,
\* compare_texts does not raise, and a run that gets past the pairs has
\* dispatched every one of them.
C6_NoChunkOutcomeEscapes ==
    ValidBudget =>
        /\ pc # "raised"
        /\ pc \in {"leftover", "synth", "finish", "returned"} /\ ~ShortCircuited
               => Len(chunk_results) = num_pairs_to_compare

\* C7: when the call for pair i returns text that is no JSON, the step adds
\* nothing to the three totals, adds one entry to chunk_errors, appends one
\* unchanged section that holds the error marker of chunk i+1, and leaves the
\* loop where a successful pair would: at pair i+1 if there is one.
C7_MalformedPairIsNeutral ==
    [][(/\ pc = "pairs"
        /\ Len(llm_calls') = Len(llm_calls) + 1
        /\ Malformed(llm_calls'[Len(llm_calls')].response))
       => (/\ total_additions' = total_additions
           /\ total_deletions' = total_deletions
           /\ total_modifications' = total_modifications
           /\ Len(chunk_errors') = Len(chunk_errors) + 1
           /\ Len(all_diff_sections') = Len(all_diff_sections) + 1
           /\ SubSeq(all_diff_sections', 1, Len(all_diff_sections)) = all_diff_sections
           /\ LET section == all_diff_sections'[Len(all_diff_sections')].o
              IN  /\ section["type"] = JStr("unchanged")
                  /\ HasPrefix(section["text"].s,
                               "\n\n[ERROR PROCESSING CHUNK " \o ToString(i + 1) \o ":")
           /\ i' = i + 1
           /\ pc' = IF i + 1 < num_pairs_to_compare THEN "pairs"
                    ELSE IF i + 1 < total_chunks_to_process THEN "leftover" ELSE "synth")
      ]_vars

\* A run that returned after a first pair with a malformed answer and a second
\* pair that succeeded.
C7_Witness ==
    /\ OrchReturned
    /\ api_key
    /\ Len(chunk_results) >= 2
    /\ Malformed(llm_calls[1].response)
    /\ IsFailure(chunk_results[1])
    /\ ~IsFailure(chunk_results[2])
    /\ result.summary.chunk_errors = 1
    /\ result.summary.additions > 0

\* C8 as stated: in every result of compare_texts the diff sections are the
\* contributions of the pairs in index order followed by the leftover
\* sections in index order, and the accumulated list is a prefix of them.
C8_SectionsInOrderEveryResult ==
    OrchReturned =>
        /\ result.diff_sections = ExpectedSections
        /\ IsPrefix(all_diff_sections, result.diff_sections)

\* C8 as amended: in every result of compare_texts other than the one for two
\* documents without chunks (which holds one unchanged section with empty
\* text), the diff sections are the contributions of the pairs in index order
\* followed by the leftover added or deleted sections in index order; and
\* every step of a run only appends to the accumulated list.
C8_SectionsInOrder ==
    [][/\ IsPrefix(all_diff_sections, all_diff_sections')
       /\ (OrchReturned' /\ ~ShortCircuited') =>
              /\ result'.diff_sections = ExpectedSections'
              /\ IsPrefix(all_diff_sections, result'.diff_sections)
       /\ ShortCircuited' => result'.diff_sections = <<Section("unchanged", "")>>
      ]_vars

\* A result with the sections of two pairs, the first failed, and a leftover
\* section after them.
C8_Witness ==
    /\ OrchReturned
    /\ Len(chunk_results) = 2
    /\ IsFailure(chunk_results[1])
    /\ ~IsFailure(chunk_results[2])
    /\ PairSections(chunk_results[2], 1) # <<>>
    /\ LeftoverSections # <<>>
    /\ result.diff_sections = ExpectedSections

\* C9: in every result the totals of additions, deletions and modifications
\* are the sums of the counts of the results of compare_chunk, a failure
\* adding nothing, plus one addition per leftover chunk of B and one deletion
\* per leftover chunk of A, whatever the length of the chunk.
C9_TotalsAreSums ==
    OrchReturned =>
        /\ result.summary.additions = SumCount(chunk_results, "additions") + LeftoverAddedCount
        /\ result.summary.deletions = SumCount(chunk_results, "deletions") + LeftoverDeletedCount
        /\ result.summary.modifications = SumCount(chunk_results, "modifications")

\* A result over a pair with counts, a failed pair that carried counts, and a
\* leftover chunk longer than one character.
C9_Witness ==
    /\ OrchReturned
    /\ Len(chunk_results) = 2
    /\ \E n \in 1..2 : ~IsFailure(chunk_results[n])
                        /\ Number(Count(chunk_results[n], "additions")) > 0
    /\ \E n \in 1..2 : IsFailure(chunk_results[n])
                        /\ "summary" \in DOMAIN chunk_results[n]
                        /\ chunk_results[n]["summary"] # ZeroSummary
    /\ num_chunks1 > num_chunks2
    /\ Len(chunks1[num_chunks1]) > 1
    /\ result.summary.deletions = SumCount(chunk_results, "deletions") + 1

\* C10: if document B has k > 0 more chunks than document A and every pair
\* succeeded, then additions is the sum of the pairs' additions plus k,
\* chunks_processed is the number of chunks of A, chunks_added is k,
\* chunks_deleted is 0, and the last k diff sections are added sections with
\* the texts of B's leftover chunks in index order.
C10_LeftoverAdded ==
    (OrchReturned /\ num_chunks2 > num_chunks1 /\ AllPairsSucceeded) =>
        LET extra == num_chunks2 - num_chunks1
            sections == result.diff_sections
        IN  /\ result.summary.additions = SumCount(chunk_results, "additions") + extra
            /\ result.summary.chunks_processed = num_chunks1
            /\ result.summary.chunks_added = extra
            /\ result.summary.chunks_deleted = 0
            /\ Len(sections) >= extra
            /\ \A n \in 1..extra :
                   sections[Len(sections) - extra + n] =
                       JObj([type |-> JStr("added"), text |-> JStr(chunks2[num_chunks1 + n])])

\* One pair that succeeded, then two different leftover chunks of B.
C10_Witness ==
    /\ OrchReturned
    /\ num_chunks1 = 1
    /\ num_chunks2 = 3
    /\ chunks2[2] # chunks2[3]
    /\ AllPairsSucceeded
    /\ Len(chunk_results) = 1
    /\ result.summary.chunks_added = 2

\* C11: whenever both documents chunk to nothing, compare_texts has sent no
\* request to the service and called compare_chunk for no pair, and the result
\* holds exactly one unchanged section with empty text and the counts of
\* additions, deletions and modifications, all 0.
C11_BothEmptyShortCircuits ==
    (pc \notin {"check", "chunk", "raised"}
        /\ chunk_text(text1, effective_chunk_content_size) = <<>>
        /\ chunk_text(text2, effective_chunk_content_size) = <<>>) =>
        /\ OrchReturned
        /\ llm_calls = <<>>
        /\ chunk_results = <<>>
        /\ result.diff_sections = <<JObj([type |-> JStr("unchanged"), text |-> JStr("")])>>
        /\ result.summary.additions = 0
        /\ result.summary.deletions = 0
        /\ result.summary.modifications = 0

\* Two documents that chunk to nothing, one of them not the empty text, with
\* an API key at hand.
C11_Witness ==
    /\ OrchReturned
    /\ api_key
    /\ text1 = SEP
    /\ text2 = ""
    /\ chunks1 = <<>>
    /\ chunks2 = <<>>
    /\ Len(result.diff_sections) = 1

\* C12: every result compare_texts returns has the same fields: diff_sections,
\* detailed_summary, and a summary of additions, deletions, modifications,
\* chunks_processed, chunks_added, chunks_deleted and chunk_errors.
C12_ResultsHaveOneShape ==
    OrchReturned =>
        /\ DOMAIN result = {"diff_sections", "summary", "detailed_summary"}
        /\ DOMAIN result.summary =
               {"additions", "deletions", "modifications", "chunks_processed",
                "chunks_added", "chunks_deleted", "chunk_errors"}

\* C13: every value of compare_chunk that holds "error" holds the counts
\* additions = deletions = modifications = 0 and an empty list of sections.
C13_FailuresAreNeutral ==
    \A n \in 1..Len(chunk_results) :
        IsFailure(chunk_results[n]) =>
            /\ "summary" \in DOMAIN chunk_results[n]
            /\ chunk_results[n]["summary"] =
                   JObj([additions |-> JNum(0), deletions |-> JNum(0),
                         modifications |-> JNum(0)])
            /\ "diff_sections" \in DOMAIN chunk_results[n]
            /\ chunk_results[n]["diff_sections"] = JList(<<>>)

\* C14: in every result of compare_texts, every diff section of type modified
\* holds both its new text and the original text.
C14_ModifiedCarriesBoth ==
    OrchReturned =>
        \A n \in 1..Len(result.diff_sections) :
            LET section == result.diff_sections[n]
            IN  (section.t = "obj" /\ "type" \in DOMAIN section.o
                    /\ section.o["type"] = JStr("modified")) =>
                {"text", "original"} \subseteq DOMAIN section.o

\* Whether sub occurs in s.
Contains(s, sub) ==
    \E pos \in 1..(Len(s) - Len(sub) + 1) : SubSeq(s, pos, pos + Len(sub) - 1) = sub

\* The narratives captured, joined in the order of capture.
JoinedNarratives == Join("\n---\n", Strs(all_chunk_summaries_raw))

\* The synthesis gave no text: no API key, or the call made last returned "".
SynthesisFailed ==
    \/ ~api_key
    \/ /\ llm_calls # <<>>
       /\ llm_calls[Len(llm_calls)].kind = "synthesis"
       /\ call_gemini_for_text(TRUE, llm_calls[Len(llm_calls)].reply) = ""

\* C15: in every result of a run that captured a narrative and whose synthesis
\* gave no text, the narrative is not empty and holds all the captured
\* narratives, joined in chunk order.
C15_FallbackKeepsNarratives ==
    (OrchReturned /\ ~ShortCircuited /\ all_chunk_summaries_raw # <<>> /\ SynthesisFailed) =>
        /\ result.detailed_summary # ""
        /\ Contains(result.detailed_summary, JoinedNarratives)

\* The failed pairs of rs, from pair j on, each as its 1-based number and reason.
RECURSIVE FailedLines(_, _)
FailedLines(rs, j) ==
    IF j >= Len(rs) THEN <<>>
    ELSE (IF IsFailure(rs[j + 1])
          THEN <<"Chunk " \o ToString(j + 1) \o ": " \o Format(rs[j + 1]["error"])>>
          ELSE <<>>) \o FailedLines(rs, j + 1)

WarningHead == "**Note:** Errors occurred during the processing of "

\* The warning block that lists lines.
WarningBlock(lines) ==
    WarningHead \o ToString(Len(lines))
        \o " chunk(s). The comparison or summary below might be incomplete or inaccurate in affected areas.\nError Details:"
        \o Join("", [n \in 1..Len(lines) |-> "\n- " \o lines[n]])
        \o "\n\n---\n\n"

\* C16: the narrative of a result begins with the warning block exactly if a
\* pair failed; the block lists every failed pair once, in pair order, with
\* its 1-based number and its reason, and chunk_errors is their number,
\* whatever the synthesis did.
C16_WarningListsEveryFailure ==
    OrchReturned =>
        LET lines == FailedLines(chunk_results, 0)
        IN  /\ ~ShortCircuited => result.summary.chunk_errors = Len(lines)
            /\ lines # <<>> => HasPrefix(result.detailed_summary, WarningBlock(lines))
            /\ lines = <<>> => ~HasPrefix(result.detailed_summary, WarningHead)

\* Three pairs, the first and the last failed for different reasons, and a
\* synthesis that gave a text.
C16_Witness ==
    /\ OrchReturned
    /\ Len(chunk_results) = 3
    /\ IsFailure(chunk_results[1])
    /\ ~IsFailure(chunk_results[2])
    /\ IsFailure(chunk_results[3])
    /\ chunk_results[1]["error"] # chunk_results[3]["error"]
    /\ result.summary.chunk_errors = 2
    /\ ~SynthesisFailed

----------------------------------------------------------------------------
(* Two calls of compare_texts with the same arguments, against a service   *)
(* that answers the same prompt the same way                               *)

\* The prompt of a logged request: the two chunks of a comparison (lines
\* 130-157), or the totals and summaries of a synthesis (lines 286-304).
SamePrompt(c, d) ==
    /\ c.kind = d.kind
    /\ IF c.kind = "compare"
       THEN c.chunk1 = d.chunk1 /\ c.chunk2 = d.chunk2
       ELSE c.prompt = d.prompt

SameAnswer(c, d) ==
    IF c.kind = "compare" THEN c.response = d.response ELSE c.reply = d.reply

\* The requests answered so far, those of the first call included.
Answered == (IF first = Unset THEN <<>> ELSE first.calls) \o llm_calls

\* A step that sends a request gets the answer the same prompt got before.
DeterministicService ==
    Len(llm_calls') = Len(llm_calls) + 1 =>
        \A n \in 1..Len(Answered) :
            SamePrompt(Answered[n], llm_calls'[Len(llm_calls')]) =>
                SameAnswer(Answered[n], llm_calls'[Len(llm_calls')])

\* compare_texts is called again with the same arguments and environment: the
\* new frame assigns its locals anew (lines 200-220, 273).
SecondCall ==
    /\ pc \in {"returned", "raised"}
    /\ first = Unset
    /\ first' = [pc |-> pc, result |-> result, exc |-> exc, calls |-> llm_calls]
    /\ pc' = "check"
    /\ result' = Unset
    /\ exc' = "none"
    /\ chunk_calls' = 0
    /\ chunk_results' = <<>>
    /\ llm_calls' = <<>>
    /\ synth_calls' = 0
    /\ UNCHANGED <<chunkVars, inputs, chunks1, chunks2, i, accumulators, final_detailed_summary>>

TwiceNext ==
    \/ RejectBudget
    \/ AcceptBudget
    \/ ChunkBothEmpty
    \/ ChunkBoth
    \/ ComparePairSuccess /\ DeterministicService
    \/ ComparePairRaises /\ DeterministicService
    \/ ComparePairFailure /\ DeterministicService
    \/ LeftoverAdded
    \/ LeftoverDeleted
    \/ SynthJoinRaises
    \/ SynthSucceeds /\ DeterministicService
    \/ SynthFallsBack /\ DeterministicService
    \/ SynthSkipped
    \/ Finish
    \/ SecondCall

\* The documents called twice: without chunks, of one chunk, of two equal
\* paragraphs (two pairs with the same prompt), and of three paragraphs.
TwiceTexts == {"", "a", Join(SEP, <<"a", "a">>), LongDocument}
TwiceBudgets == {PromptOverhead, PromptOverhead + 1, PromptOverhead + 4}

TwiceInit ==
    /\ text1 \in TwiceTexts
    /\ text2 \in TwiceTexts
    /\ max_chunk_size \in TwiceBudgets
    /\ OrchStart
    /\ ChunkIdle

SpecTwice == TwiceInit /\ [][TwiceNext]_vars

\* C17: a second call of compare_texts with the same texts and budget, the
\* service answering every prompt as it answered it before, ends as the first
\* call ended: the same result (sections, counts, narrative) or the same
\* exception.
C17_SecondCallSameResult ==
    (first # Unset /\ pc \in {"returned", "raised"}) =>
        /\ pc = first.pc
        /\ result = first.result
        /\ exc = first.exc
        /\ llm_calls = first.calls

\* A second call that returned after a failed pair, a successful pair and a
\* leftover chunk, as the first call did.
C17_Witness ==
    /\ first # Unset
    /\ OrchReturned
    /\ Len(chunk_results) = 2
    /\ IsFailure(chunk_results[1])
    /\ ~IsFailure(chunk_results[2])
    /\ num_chunks2 > num_chunks1
    /\ result.summary.chunk_errors = 1
    /\ Len(result.diff_sections) >= 3

----------------------------------------------------------------------------
(* Claims about the validation of a response, checked under Spec *)

\* The object a response text holds: parsed directly, or else between its
\* first '{' and its last '}'.
ParsedObject(txt) ==
    IF json_loads(txt).ok THEN json_loads(txt) ELSE json_loads(Embedded(txt))

\* The response holds an object with the three fields.
HoldsThreeFields(response) ==
    /\ response.kind = "text"
    /\ ParsedObject(response.text).ok
    /\ {"diff_sections", "summary", "detailed_summary"}
           \subseteq DOMAIN ParsedObject(response.text).val

\* C18: for every request sent for a pair, compare_chunk returns a success
\* with the sections, counts and narrative of the object in the response if
\* the response text holds an object (directly or between its first '{' and
\* last '}') with the three fields, whatever else the object holds; and it
\* returns a failure in every other case.
C18_ValidationOrder ==
    api_key =>
        \A n \in 1..Len(chunk_results) :
            LET response == llm_calls[n].response
                value == chunk_results[n]
            IN  IF HoldsThreeFields(response)
                THEN /\ ~IsFailure(value)
                     /\ \A f \in {"diff_sections", "summary", "detailed_summary"} :
                            value[f] = ParsedObject(response.text).val[f]
                ELSE IsFailure(value)

----------------------------------------------------------------------------
(* Claims about the order of the calls, checked under Spec *)

C20_SynthesisInputCapped ==
    \A n \in 1..Len(llm_calls) :
        llm_calls[n].kind = "synthesis" =>
            llm_calls[n].prompt.summaries =
                IF Len(JoinedNarratives) > 20000
                THEN SubSeq(JoinedNarratives, 1, 20000)
                         \o "\n... [Summaries truncated due to length]"
                ELSE JoinedNarratives

\* A synthesis request for narratives of more than 20000 characters, of
\* which the one of 20000 characters is not the first.
C20_Witness ==
    /\ llm_calls # <<>>
    /\ llm_calls[Len(llm_calls)].kind = "synthesis"
    /\ Len(JoinedNarratives) > 20000
    /\ Len(all_chunk_summaries_raw) = 2
    /\ all_chunk_summaries_raw[1].s = "first narrative"
    /\ Len(llm_calls[Len(llm_calls)].prompt.summaries) = 20000 + 40

----------------------------------------------------------------------------
(* Claims C21-C24 *)

\* A run that chunked both documents, found a chunk, and has ended.
RunEnded ==
    /\ pc \in {"returned", "raised"}
    /\ chunk_calls = 2
    /\ ~(chunks1 = <<>> /\ chunks2 = <<>>)

Placeholder == "No specific changes were identified or summarized during chunk processing."

\* C21: a run that was not short-circuited and captured no narrative calls
\* the synthesizer not at all and returns the fixed placeholder as its
\* narrative, and a run that captured at least one narrative calls the
\* synthesizer exactly once.
C21_SynthesisIffNarrativeCaptured ==
    RunEnded =>
        IF all_chunk_summaries_raw = <<>>
        THEN /\ synth_calls = 0
             /\ \A n \in 1..Len(llm_calls) : llm_calls[n].kind # "synthesis"
             /\ OrchReturned => result.detailed_summary = Placeholder
        ELSE synth_calls = 1

\* The same for the runs that return a result.
C21_OnReturnedRuns ==
    (OrchReturned /\ ~ShortCircuited) =>
        IF all_chunk_summaries_raw = <<>>
        THEN /\ synth_calls = 0
             /\ \A n \in 1..Len(llm_calls) : llm_calls[n].kind # "synthesis"
             /\ result.detailed_summary = Placeholder
        ELSE /\ synth_calls = 1
             /\ api_key => /\ llm_calls # <<>>
                           /\ llm_calls[Len(llm_calls)].kind = "synthesis"

\* A returned run of one pair whose answer had an empty narrative.
C21_SkippedRun ==
    /\ OrchReturned
    /\ Len(chunk_results) = 1
    /\ total_chunks_to_process = 1
    /\ all_chunk_summaries_raw = <<>>
    /\ result.detailed_summary = Placeholder

\* The sections of a result that follow the contributions of the pairs.
LeftoverTail ==
    SubSeq(result.diff_sections, Len(ConcatPairSections(chunk_results, 0)) + 1,
           Len(result.diff_sections))

HasLeftover(kind) ==
    \E n \in 1..Len(LeftoverTail) : LeftoverTail[n].o["type"] = JStr(kind)

\* C22: in every result other than the one for two documents without chunks,
\* chunks_added and chunks_deleted are not both non-zero, the sections after
\* those of the pairs do not hold both an added and a deleted section (there
\* are chunks_added + chunks_deleted of them, added ones only if chunks_added
\* is not zero and deleted ones only if chunks_deleted is not zero), and
\* chunks_processed + chunks_added + chunks_deleted is the larger of the two
\* chunk counts.
C22_OneLeftoverCase ==
    (OrchReturned /\ ~ShortCircuited) =>
        LET s == result.summary
        IN  /\ ~(s.chunks_added # 0 /\ s.chunks_deleted # 0)
            /\ ~(HasLeftover("added") /\ HasLeftover("deleted"))
            /\ Len(LeftoverTail) = s.chunks_added + s.chunks_deleted
            /\ HasLeftover("added") => s.chunks_added # 0
            /\ HasLeftover("deleted") => s.chunks_deleted # 0
            /\ s.chunks_processed + s.chunks_added + s.chunks_deleted =
                   IF Len(chunks1) > Len(chunks2) THEN Len(chunks1) ELSE Len(chunks2)

\* A result for one chunk against three, the pair answered with sections of
\* which one is typed added: two sections after them, both deleted.
C22_Witness ==
    /\ OrchReturned
    /\ Len(chunks1) = 3
    /\ Len(chunks2) = 1
    /\ result.summary.chunks_deleted = 2
    /\ result.summary.chunks_added = 0
    /\ result.summary.chunks_processed = 1
    /\ ~IsFailure(chunk_results[1])
    /\ \E n \in 1..Len(PairSections(chunk_results[1], 0)) :
           PairSections(chunk_results[1], 0)[n].o["type"] = JStr("added")
    /\ Len(LeftoverTail) = 2
    /\ HasLeftover("deleted")

\* The paragraphs of a list of chunks, in order.
RECURSIVE ParagraphsOf(_, _)
ParagraphsOf(cs, pos) ==
    IF pos > Len(cs) THEN <<>> ELSE Split(cs[pos]) \o ParagraphsOf(cs, pos + 1)

HasContent(p) == p # ""

\* C23: for every text and positive max_chunk_size, every chunk that
\* chunk_text returns is a non-empty string, and the non-empty paragraphs of
\* the chunks, split in order on "\n\n", are the non-empty paragraphs of the
\* text: nothing is dropped, duplicated or reordered.
C23_ChunksKeepContent ==
    ChunkerDone =>
        /\ \A n \in 1..Len(chunks) : chunks[n] # ""
        /\ SelectSeq(ParagraphsOf(chunks, 1), HasContent) =
               SelectSeq(Split(text), HasContent)

\* A text that begins with an empty paragraph and has another between two
\* different non-empty ones, returned in two chunks.
C23_Witness ==
    /\ ChunkerDone
    /\ Len(chunks) = 2
    /\ Len(paragraphs) = 4
    /\ paragraphs[1] = ""
    /\ paragraphs[3] = ""
    /\ paragraphs[2] # ""
    /\ paragraphs[4] # ""
    /\ paragraphs[2] # paragraphs[4]
    /\ SelectSeq(ParagraphsOf(chunks, 1), HasContent) = SelectSeq(paragraphs, HasContent)

\* Exactly one of the two documents has no chunk.
OneSided == (chunks1 = <<>>) # (chunks2 = <<>>)

\* C24: when one document has no chunk and the other has m > 0, compare_texts
\* never calls compare_chunk and does not raise, and its result reports
\* chunks_processed = 0 and chunk_errors = 0 and holds exactly m sections,
\* the chunks of B as added sections with additions = m, or the chunks of A
\* as deleted sections with deletions = m, the other two totals 0; the
\* synthesizer is called exactly once.
C24_OneSidedComparison ==
    OneSided =>
        /\ chunk_results = <<>>
        /\ \A n \in 1..Len(llm_calls) : llm_calls[n].kind # "compare"
        /\ pc # "raised"
        /\ OrchReturned =>
               LET s == result.summary
                   m == total_chunks_to_process
               IN  /\ m > 0
                   /\ s.chunks_processed = 0
                   /\ s.chunk_errors = 0
                   /\ s.modifications = 0
                   /\ Len(result.diff_sections) = m
                   /\ IF chunks1 = <<>>
                      THEN /\ result.diff_sections =
                                  [n \in 1..m |-> Section("added", chunks2[n])]
                           /\ s.additions = m
                           /\ s.deletions = 0
                      ELSE /\ result.diff_sections =
                                  [n \in 1..m |-> Section("deleted", chunks1[n])]
                           /\ s.deletions = m
                           /\ s.additions = 0
                   /\ synth_calls = 1
                   /\ api_key => /\ Len(llm_calls) = 1
                                 /\ llm_calls[1].kind = "synthesis"

\* A result for three chunks of A against a document B of separators only:
\* three deleted sections and one request, the synthesis.
C24_Witness ==
    /\ OrchReturned
    /\ api_key
    /\ text2 = SEP
    /\ chunks2 = <<>>
    /\ Len(chunks1) = 3
    /\ Len(result.diff_sections) = 3
    /\ result.summary.deletions = 3
    /\ synth_calls = 1
    /\ Len(llm_calls) = 1

====
